---- MODULE Spec2Model ----
(***************************************************************************)
(* MeMS: a two-level free-list allocator over a private virtual address    *)
(* space (src/mems.h).  Metadata records live in bump arenas and are       *)
(* addressed here by their arena index (NULL is 0); the sentinel main node *)
(* head_main is the first record of the main arena.                        *)
(***************************************************************************)
EXTENDS Integers, Sequences, FiniteSets, TLC

\* ---- program constants (src/mems.h:24-27) ----
PAGE_SIZE == 4096
HOLE == 0
PROCESS == 1
START_VIRTUAL_ADDRESS == 1000
NULL == 0
\* sizeof(struct main_node) == sizeof(struct sub_node) == 64
NODE_SIZE == 64

\* ---- bounds of the model ----
\* number of backing regions mems_malloc may acquire in one run
MaxRegions == 2
\* number of sub_node records the sub arena may hand out in one run
MaxSubNodes == 3
\* request sizes tried by mems_malloc
Sizes == {0, 1000, 4096, 5000}

VARIABLES
    mainNodes,              \* main arena: index -> struct main_node
    subNodes,               \* sub arena: index -> struct sub_node
    start_virtual_address,  \* the global of that name
    provider,               \* page provider: regions acquired for the user
    live,                   \* <<handle, size>> returned by mems_malloc, not freed
    call                    \* the last public call: [op, arg, ret] and the
                            \* segment it returned or freed (seg)

vars == <<mainNodes, subNodes, start_virtual_address, provider, live, call>>

\* the sentinel is the first record add_main_node hands out
head_main == 1

\* ---- page provider (mmap / munmap of user regions) ----
SlotBase(i) == 65536 * i

Mapped(prov) == {i \in 1..Len(prov) : prov[i].released = 0}

\* addresses mmap may return: the base of a region released before, or one
\* address never handed out so far (which one it is makes no difference to
\* the allocator, so the next unused slot stands for all of them)
FreeBases(prov) ==
    {SlotBase(i) : i \in 1..(Len(prov) + 1)} \ {prov[j].base : j \in Mapped(prov)}

mmap(prov, base, pages) ==
    Append(prov, [base |-> base, pages |-> pages, released |-> 0])

\* munmap(p, len): the mapped region at p of that length is released
munmap(prov, base, pages) ==
    [j \in 1..Len(prov) |->
        IF j \in Mapped(prov) /\ prov[j].base = base /\ prov[j].pages = pages
        THEN [prov[j] EXCEPT !.released = @ + 1]
        ELSE prov[j]]

\* ---- metadata arenas ----
\* bump allocation: the next record follows the last one handed out
add_main_node(mn) == Len(mn) + 1
add_sub_node(sn) == Len(sn) + 1

\* pages an arena of n records occupies (a new page every PAGE_SIZE/NODE_SIZE)
ArenaPages(n) ==
    IF n = 0 THEN 1 ELSE (n * NODE_SIZE + PAGE_SIZE - 1) \div PAGE_SIZE

\* a record of a freshly mapped (zeroed) arena page
ZeroMain ==
    [num_of_pages |-> 0, p_addr |-> 0, v_addr_start |-> 0, v_addr_end |-> 0,
     next |-> NULL, prev |-> NULL, sub_head |-> NULL]
ZeroSub ==
    [type |-> 0, size |-> 0, p_addr |-> 0, v_addr_start |-> 0,
     v_addr_end |-> 0, next |-> NULL, prev |-> NULL]

\* ---- traversals ----
RECURSIVE MainFrom(_, _)
MainFrom(mn, m) ==
    IF m = head_main THEN <<>> ELSE <<m>> \o MainFrom(mn, mn[m].next)

\* main nodes in traversal order: head_main->next forward up to head_main
MainChain(mn) == MainFrom(mn, mn[head_main].next)

RECURSIVE SubFrom(_, _)
SubFrom(sn, s) ==
    IF s = NULL THEN <<>> ELSE <<s>> \o SubFrom(sn, sn[s].next)

\* the sub-chain of main node m
SubChain(mn, sn, m) == SubFrom(sn, mn[m].sub_head)

RECURSIVE Flatten(_, _, _)
Flatten(mn, sn, ms) ==
    IF ms = <<>> THEN <<>>
    ELSE SubChain(mn, sn, Head(ms)) \o Flatten(mn, sn, Tail(ms))

\* every segment in traversal order (main nodes forward, segments forward)
AllSubs(mn, sn) == Flatten(mn, sn, MainChain(mn))

SeqRange(s) == {s[i] : i \in 1..Len(s)}

\* ---- mems_init ----
Init ==
    /\ mainNodes = <<[ZeroMain EXCEPT !.num_of_pages = 0,
                                      !.next = head_main,
                                      !.prev = head_main,
                                      !.sub_head = NULL,
                                      !.v_addr_start = START_VIRTUAL_ADDRESS,
                                      !.v_addr_end = START_VIRTUAL_ADDRESS - 1]>>
    /\ subNodes = <<>>
    /\ start_virtual_address = START_VIRTUAL_ADDRESS
    /\ provider = <<>>
    /\ live = {}
    /\ call = [op |-> "init", arg |-> 0, ret |-> 0, seg |-> NULL]

\* ---- mems_malloc ----
\* mutant of FirstFitIn: the search keeps the last fitting hole, not the first
RECURSIVE FirstFitIn_LastFit(_, _, _)
FirstFitIn_LastFit(sn, subs, size) ==
    IF subs = <<>> THEN NULL
    ELSE LET later == FirstFitIn_LastFit(sn, Tail(subs), size)
         IN IF later # NULL THEN later
            ELSE IF sn[Head(subs)].type = HOLE /\ sn[Head(subs)].size >= size
                 THEN Head(subs)
                 ELSE NULL

\* mutant of FirstFitIn: the search takes the first segment that is large
\* enough, whatever its type (the type test of 212 dropped)
RECURSIVE FirstFitIn_AnyType(_, _, _)
FirstFitIn_AnyType(sn, subs, size) ==
    IF subs = <<>> THEN NULL
    ELSE IF sn[Head(subs)].size >= size
         THEN Head(subs)
         ELSE FirstFitIn_AnyType(sn, Tail(subs), size)

\* first segment in traversal order with type HOLE and size >= size (205-243)
RECURSIVE FirstFitIn(_, _, _)
FirstFitIn(sn, subs, size) ==
    IF subs = <<>> THEN NULL
    ELSE IF sn[Head(subs)].type = HOLE /\ sn[Head(subs)].size >= size
         THEN Head(subs)
         ELSE FirstFitIn(sn, Tail(subs), size)

FirstFit(mn, sn, size) == FirstFitIn(sn, AllSubs(mn, sn), size)

\* mutant of SplitHole: the taken segment keeps the v_addr_end of the hole (233)
SplitHole_KeepEnd(sn, c, size) ==
    IF sn[c].size > size
    THEN LET new == add_sub_node(sn)
             hole == [type |-> HOLE,
                      size |-> sn[c].size - size,
                      p_addr |-> sn[c].p_addr + size,
                      v_addr_start |-> sn[c].v_addr_start + size,
                      v_addr_end |-> sn[c].v_addr_end,
                      next |-> sn[c].next,
                      prev |-> c]
             sn1 == Append(sn, hole)
             sn2 == IF sn[c].next # NULL
                    THEN [sn1 EXCEPT ![sn[c].next].prev = new]
                    ELSE sn1
         IN [sn2 EXCEPT ![c].next = new,
                        ![c].size = size,
                        ![c].type = PROCESS]
    ELSE [sn EXCEPT ![c].type = PROCESS]

\* mutant of SplitHole: the residual hole gets the p_addr of the hole (223)
SplitHole_SamePAddr(sn, c, size) ==
    IF sn[c].size > size
    THEN LET new == add_sub_node(sn)
             hole == [type |-> HOLE,
                      size |-> sn[c].size - size,
                      p_addr |-> sn[c].p_addr,
                      v_addr_start |-> sn[c].v_addr_start + size,
                      v_addr_end |-> sn[c].v_addr_end,
                      next |-> sn[c].next,
                      prev |-> c]
             sn1 == Append(sn, hole)
             sn2 == IF sn[c].next # NULL
                    THEN [sn1 EXCEPT ![sn[c].next].prev = new]
                    ELSE sn1
         IN [sn2 EXCEPT ![c].next = new,
                        ![c].size = size,
                        ![c].v_addr_end = sn[c].v_addr_start + size - 1,
                        ![c].type = PROCESS]
    ELSE [sn EXCEPT ![c].type = PROCESS]

\* the sub arena after the hole c has been taken for size bytes (213-239)
SplitHole(sn, c, size) ==
    IF sn[c].size > size
    THEN LET new == add_sub_node(sn)
             hole == [type |-> HOLE,
                      size |-> sn[c].size - size,
                      p_addr |-> sn[c].p_addr + size,
                      v_addr_start |-> sn[c].v_addr_start + size,
                      v_addr_end |-> sn[c].v_addr_end,
                      next |-> sn[c].next,
                      prev |-> c]
             sn1 == Append(sn, hole)
             sn2 == IF sn[c].next # NULL
                    THEN [sn1 EXCEPT ![sn[c].next].prev = new]
                    ELSE sn1
         IN [sn2 EXCEPT ![c].next = new,
                        ![c].size = size,
                        ![c].v_addr_end = sn[c].v_addr_start + size - 1,
                        ![c].type = PROCESS]
    ELSE [sn EXCEPT ![c].type = PROCESS]

\* mutant of NumPages: one page more than the whole pages of the request
NumPages_FloorPlusOne(size) == size \div PAGE_SIZE + 1

\* ceil((double)size / (double)PAGE_SIZE) (246)
NumPages(size) == (size + PAGE_SIZE - 1) \div PAGE_SIZE

\* mutant of AppendRegion: the new range starts at the last v_addr_end, not one
\* byte past it (262)
AppendRegion_StartAtEnd(mn, p_addr, num_of_pages, new_sub) ==
    LET last == mn[head_main].prev
        new == add_main_node(mn)
        node == [ZeroMain EXCEPT
                    !.p_addr = p_addr,
                    !.num_of_pages = num_of_pages,
                    !.v_addr_start = mn[last].v_addr_end,
                    !.v_addr_end = mn[last].v_addr_end
                                   + (num_of_pages * PAGE_SIZE) - 1,
                    !.next = head_main,
                    !.prev = last,
                    !.sub_head = new_sub]
        mn1 == Append(mn, node)
        mn2 == [mn1 EXCEPT ![last].next = new]
        mn3 == [mn2 EXCEPT ![mn2[head_main].prev].next = new]
    IN [mn3 EXCEPT ![head_main].prev = new]

\* the main arena after a region of num_of_pages pages at p_addr has been
\* linked behind head_main->prev, new_sub being its first segment (245-269, 300)
AppendRegion(mn, p_addr, num_of_pages, new_sub) ==
    LET last == mn[head_main].prev
        new == add_main_node(mn)
        node == [ZeroMain EXCEPT
                    !.p_addr = p_addr,
                    !.num_of_pages = num_of_pages,
                    !.v_addr_start = mn[last].v_addr_end + 1,
                    !.v_addr_end = mn[last].v_addr_end + 1
                                   + (num_of_pages * PAGE_SIZE) - 1,
                    !.next = head_main,
                    !.prev = last,
                    !.sub_head = new_sub]
        mn1 == Append(mn, node)
        mn2 == [mn1 EXCEPT ![last].next = new]
        mn3 == [mn2 EXCEPT ![mn2[head_main].prev].next = new]
    IN [mn3 EXCEPT ![head_main].prev = new]

\* the sub arena after the segments of a new region have been made (274-299)
NewSubChain(sn, p_addr, v_start, num_of_pages, size) ==
    LET new == add_sub_node(sn)
        proc == [type |-> PROCESS,
                 size |-> size,
                 p_addr |-> p_addr,
                 v_addr_start |-> v_start,
                 v_addr_end |-> v_start + size - 1,
                 next |-> NULL,      \* new_main_node->sub_head of a zeroed record
                 prev |-> new]
        sn1 == Append(sn, proc)
    IN IF size # num_of_pages * PAGE_SIZE
       THEN LET new_hole == add_sub_node(sn1)
                hsize == num_of_pages * PAGE_SIZE - size
                hole == [type |-> HOLE,
                         size |-> hsize,
                         p_addr |-> p_addr + size,
                         v_addr_start |-> v_start + size,
                         v_addr_end |-> (v_start + size) + hsize - 1,
                         next |-> NULL,
                         prev |-> new]
            IN [Append(sn1, hole) EXCEPT ![new].next = new_hole]
       ELSE sn1

\* mutant of InvalidSize: the size check is missing
InvalidSize_Never(size) == FALSE

\* the argument check of line 200
InvalidSize(size) == size = 0

\* sub records mems_malloc(size) takes from the arena in the current state
SubNodesNeeded(mn, sn, size) ==
    LET c == FirstFit(mn, sn, size)
    IN IF InvalidSize(size) THEN 0
       ELSE IF c # NULL THEN (IF sn[c].size > size THEN 1 ELSE 0)
       ELSE IF size # NumPages(size) * PAGE_SIZE THEN 2 ELSE 1

mems_malloc(size) ==
    /\ Len(subNodes) + SubNodesNeeded(mainNodes, subNodes, size) <= MaxSubNodes
    /\ IF InvalidSize(size)
       THEN /\ call' = [op |-> "malloc", arg |-> size, ret |-> NULL,
                        seg |-> NULL]
            /\ UNCHANGED <<mainNodes, subNodes, start_virtual_address,
                           provider, live>>
       ELSE LET c == FirstFit(mainNodes, subNodes, size)
            IN IF c # NULL
               THEN /\ subNodes' = SplitHole(subNodes, c, size)
                    /\ call' = [op |-> "malloc", arg |-> size,
                                ret |-> subNodes[c].v_addr_start,
                                seg |-> c]
                    /\ live' = live \cup {<<subNodes[c].v_addr_start, size>>}
                    /\ UNCHANGED <<mainNodes, start_virtual_address, provider>>
               ELSE /\ Len(provider) < MaxRegions
                    /\ \E p_addr \in FreeBases(provider) :
                         LET num_of_pages == NumPages(size)
                             v_start ==
                                 mainNodes[mainNodes[head_main].prev].v_addr_end + 1
                         IN /\ provider' = mmap(provider, p_addr, num_of_pages)
                            /\ mainNodes' = AppendRegion(mainNodes, p_addr,
                                                num_of_pages,
                                                add_sub_node(subNodes))
                            /\ subNodes' = NewSubChain(subNodes, p_addr, v_start,
                                                num_of_pages, size)
                            /\ start_virtual_address' =
                                   start_virtual_address + size
                            /\ call' = [op |-> "malloc", arg |-> size,
                                        ret |-> v_start,
                                        seg |-> add_sub_node(subNodes)]
                            /\ live' = live \cup {<<v_start, size>>}

Malloc == \E size \in Sizes : mems_malloc(size)

\* ---- mems_get ----
\* mutant of Translates: the segment's type is not looked at
Translates_AnyType(sn, s, v_ptr) ==
    /\ v_ptr >= sn[s].v_addr_start
    /\ v_ptr < sn[s].v_addr_end

\* does segment s translate v_ptr (the test of line 372)
Translates(sn, s, v_ptr) ==
    /\ v_ptr >= sn[s].v_addr_start
    /\ v_ptr < sn[s].v_addr_end
    /\ sn[s].type = PROCESS

RECURSIVE GetIn(_, _, _)
GetIn(sn, subs, v_ptr) ==
    IF subs = <<>> THEN NULL
    ELSE IF Translates(sn, Head(subs), v_ptr)
         THEN sn[Head(subs)].p_addr + (v_ptr - sn[Head(subs)].v_addr_start)
         ELSE GetIn(sn, Tail(subs), v_ptr)

\* the value mems_get(v_ptr) returns in the state (mn, sn)
GetIn2(mn, sn, v_ptr) == GetIn(sn, AllSubs(mn, sn), v_ptr)

mems_get(v_ptr) == GetIn2(mainNodes, subNodes, v_ptr)

\* ---- merge_holes ----
\* mutant of MergeAt: the backward merge does not look at the type of prev (406)
MergeAt_PrevAnyType(sn, c) ==
    IF sn[c].type # HOLE THEN sn
    ELSE
      LET n == sn[c].next
          sn1 == IF n # NULL /\ sn[n].type = HOLE
                 THEN LET a == [sn EXCEPT ![c].size = @ + sn[n].size,
                                          ![c].v_addr_end = sn[n].v_addr_end,
                                          ![c].next = sn[n].next]
                      IN IF a[c].next # NULL
                         THEN [a EXCEPT ![a[c].next].prev = c]
                         ELSE a
                 ELSE sn
          p == sn1[c].prev
      IN IF p # NULL /\ p # c
         THEN LET b == [sn1 EXCEPT ![p].size = @ + sn1[c].size,
                                   ![p].v_addr_end = sn1[c].v_addr_end,
                                   ![p].next = sn1[c].next]
              IN IF b[c].next # NULL
                 THEN [b EXCEPT ![b[c].next].prev = b[c].prev]
                 ELSE b
         ELSE sn1

\* mutant of MergeAt: the merge into a preceding HOLE is missing (406-413)
MergeAt_NoBackward(sn, c) ==
    IF sn[c].type # HOLE THEN sn
    ELSE
      LET n == sn[c].next
      IN IF n # NULL /\ sn[n].type = HOLE
         THEN LET a == [sn EXCEPT ![c].size = @ + sn[n].size,
                                  ![c].v_addr_end = sn[n].v_addr_end,
                                  ![c].next = sn[n].next]
              IN IF a[c].next # NULL
                 THEN [a EXCEPT ![a[c].next].prev = c]
                 ELSE a
         ELSE sn

\* one iteration of the inner loop at segment c (395-414)
MergeAt(sn, c) ==
    IF sn[c].type # HOLE THEN sn
    ELSE
      LET n == sn[c].next
          sn1 == IF n # NULL /\ sn[n].type = HOLE
                 THEN LET a == [sn EXCEPT ![c].size = @ + sn[n].size,
                                          ![c].v_addr_end = sn[n].v_addr_end,
                                          ![c].next = sn[n].next]
                      IN IF a[c].next # NULL
                         THEN [a EXCEPT ![a[c].next].prev = c]
                         ELSE a
                 ELSE sn
          p == sn1[c].prev
      IN IF p # NULL /\ sn1[p].type = HOLE /\ p # c
         THEN LET b == [sn1 EXCEPT ![p].size = @ + sn1[c].size,
                                   ![p].v_addr_end = sn1[c].v_addr_end,
                                   ![p].next = sn1[c].next]
              IN IF b[c].next # NULL
                 THEN [b EXCEPT ![b[c].next].prev = b[c].prev]
                 ELSE b
         ELSE sn1

\* the inner loop from segment c on (393-416)
RECURSIVE MergeSubs(_, _)
MergeSubs(sn, c) ==
    IF c = NULL THEN sn
    ELSE LET sn1 == MergeAt(sn, c) IN MergeSubs(sn1, sn1[c].next)

\* mutant of MergeMains: a hole that ends a region also absorbs the hole that
\* starts the next region
RECURSIVE MergeMains_AcrossRegions(_, _, _)
MergeMains_AcrossRegions(mn, sn, m) ==
    IF m = head_main THEN sn
    ELSE LET subs == SubFrom(sn, mn[m].sub_head)
             last == subs[Len(subs)]
             nxt == mn[m].next
             first == mn[nxt].sub_head
             sn0 == IF /\ nxt # head_main
                       /\ sn[last].type = HOLE
                       /\ sn[first].type = HOLE
                    THEN [sn EXCEPT ![last].size = @ + sn[first].size,
                                    ![last].v_addr_end = sn[first].v_addr_end]
                    ELSE sn
         IN MergeMains_AcrossRegions(mn, MergeSubs(sn0, mn[m].sub_head), nxt)

\* the outer loop from main node m on (391-418)
RECURSIVE MergeMains(_, _, _)
MergeMains(mn, sn, m) ==
    IF m = head_main THEN sn
    ELSE MergeMains(mn, MergeSubs(sn, mn[m].sub_head), mn[m].next)

merge_holes(mn, sn) == MergeMains(mn, sn, mn[head_main].next)

\* ---- mems_free ----
\* mutant of FindProcessIn: the range test of the commented-out line 429
RECURSIVE FindProcessIn_Interior(_, _, _)
FindProcessIn_Interior(sn, subs, v_ptr) ==
    IF subs = <<>> THEN NULL
    ELSE IF /\ v_ptr >= sn[Head(subs)].v_addr_start
            /\ v_ptr < sn[Head(subs)].v_addr_end
            /\ sn[Head(subs)].type = PROCESS
         THEN Head(subs)
         ELSE FindProcessIn_Interior(sn, Tail(subs), v_ptr)

\* first segment in traversal order that starts at v_ptr and is a PROCESS (431)
RECURSIVE FindProcessIn(_, _, _)
FindProcessIn(sn, subs, v_ptr) ==
    IF subs = <<>> THEN NULL
    ELSE IF v_ptr = sn[Head(subs)].v_addr_start /\ sn[Head(subs)].type = PROCESS
         THEN Head(subs)
         ELSE FindProcessIn(sn, Tail(subs), v_ptr)

FindProcess(mn, sn, v_ptr) == FindProcessIn(sn, AllSubs(mn, sn), v_ptr)

\* the sub arena after mems_free(v_ptr)
FreeIn(mn, sn, v_ptr) ==
    LET c == FindProcess(mn, sn, v_ptr)
    IN IF c # NULL
       THEN merge_holes(mn, [sn EXCEPT ![c].type = HOLE])
       ELSE sn

\* addresses the callers of mems_free and mems_get try: the null handle,
\* addresses outside the map, and the ends of every segment ever made
Starts(sn) == {sn[i].v_addr_start : i \in 1..Len(sn)}
Ends(sn) == {sn[i].v_addr_end : i \in 1..Len(sn)}
FreeArgs(sn) ==
    {NULL, START_VIRTUAL_ADDRESS - 1} \cup Starts(sn)
        \cup {v + 1 : v \in Starts(sn)}
GetArgs(sn) ==
    {NULL, START_VIRTUAL_ADDRESS - 1} \cup Starts(sn) \cup Ends(sn)
        \cup {v + 1 : v \in Starts(sn)}

mems_free(v_ptr) ==
    /\ subNodes' = FreeIn(mainNodes, subNodes, v_ptr)
    /\ live' = {e \in live : e[1] # v_ptr}
    /\ call' = [op |-> "free", arg |-> v_ptr, ret |-> 0,
                seg |-> FindProcess(mainNodes, subNodes, v_ptr)]
    /\ UNCHANGED <<mainNodes, start_virtual_address, provider>>

Free == \E v_ptr \in FreeArgs(subNodes) : mems_free(v_ptr)

Get ==
    \E v_ptr \in GetArgs(subNodes) :
        /\ call' = [op |-> "get", arg |-> v_ptr, ret |-> mems_get(v_ptr),
                    seg |-> NULL]
        /\ UNCHANGED <<mainNodes, subNodes, start_virtual_address,
                       provider, live>>

\* ---- mems_finish ----
\* the provider after the regions of the main nodes ms have been unmapped
RECURSIVE ReleaseAll(_, _, _)
ReleaseAll(mn, prov, ms) ==
    IF ms = <<>> THEN prov
    ELSE ReleaseAll(mn,
                    munmap(prov, mn[Head(ms)].p_addr, mn[Head(ms)].num_of_pages),
                    Tail(ms))

mems_finish ==
    /\ provider' = ReleaseAll(mainNodes, provider, MainChain(mainNodes))
    /\ mainNodes' = [mainNodes EXCEPT ![head_main].next = head_main]
    /\ live' = {}
    /\ call' = [op |-> "finish", arg |-> 0, ret |-> 0, seg |-> NULL]
    /\ UNCHANGED <<subNodes, start_virtual_address>>

\* ---- mems_print_stats ----
RECURSIVE SumPages(_, _)
SumPages(mn, ms) ==
    IF ms = <<>> THEN 0
    ELSE mn[Head(ms)].num_of_pages + SumPages(mn, Tail(ms))

RECURSIVE SumHoles(_, _)
SumHoles(sn, subs) ==
    IF subs = <<>> THEN 0
    ELSE (IF sn[Head(subs)].type = HOLE THEN sn[Head(subs)].size ELSE 0)
         + SumHoles(sn, Tail(subs))

\* the numbers mems_print_stats prints, or the "No memory allocated" line
Stats(mn, sn) ==
    IF mn[head_main].next = head_main
    THEN <<"No memory allocated">>
    ELSE LET ms == MainChain(mn)
         IN <<SumPages(mn, ms), SumHoles(sn, AllSubs(mn, sn)), Len(ms),
              [i \in 1..Len(ms) |-> Len(SubChain(mn, sn, ms[i]))]>>

mems_print_stats ==
    /\ call' = [op |-> "print_stats", arg |-> 0,
                ret |-> Stats(mainNodes, subNodes), seg |-> NULL]
    /\ UNCHANGED <<mainNodes, subNodes, start_virtual_address, provider, live>>

Next ==
    \/ Malloc
    \/ Free
    \/ Get
    \/ mems_finish
    \/ mems_print_stats

Spec == Init /\ [][Next]_vars

\* ---- the chain as the claims see it ----
\* segments reachable from the sentinel
Chain == SeqRange(AllSubs(mainNodes, subNodes))

TypeOK ==
    /\ Len(mainNodes) >= 1
    /\ Len(subNodes) <= MaxSubNodes
    /\ Len(provider) <= MaxRegions

\* segments of the chain that start at address v
SegsAt(sn, chain, v) == {s \in chain : sn[s].v_addr_start = v}

\* C1: for every live handle h of size s and every offset k in 0..s-1,
\* mems_get(h + k) is non-null and equals mems_get(h) + k.
C1_GetTranslatesEveryByte ==
    \A e \in live :
        \A k \in 0..(e[2] - 1) :
            /\ mems_get(e[1] + k) # NULL
            /\ mems_get(e[1] + k) = mems_get(e[1]) + k

\* C2: the first mems_malloc(size > 0) after mems_finish returns the base
\* virtual address, and its region starts there and is reachable from the
\* sentinel's next.
C2_MallocAfterFinishAtBase ==
    [][(call.op = "finish" /\ call'.op = "malloc" /\ call'.arg > 0)
        => /\ call'.ret = START_VIRTUAL_ADDRESS
           /\ \E m \in SeqRange(MainChain(mainNodes')) :
                /\ mainNodes'[m].v_addr_start = START_VIRTUAL_ADDRESS
                /\ mainNodes'[m].sub_head = call'.seg]_vars

\* C3: whenever mems_finish has returned, every region acquired so far has
\* been released exactly once (munmap matches it by base and page count).
C3_FinishReleasesEveryRegionOnce ==
    call.op = "finish" =>
        \A i \in 1..Len(provider) : provider[i].released = 1

\* C4: for every live handle h of size s the chain contains exactly one
\* segment starting at h, and it is a PROCESS of size s.
C4_LiveHandleHasProcessSegment ==
    \A e \in live :
        /\ Cardinality(SegsAt(subNodes, Chain, e[1])) = 1
        /\ \A s \in SegsAt(subNodes, Chain, e[1]) :
             /\ subNodes[s].type = PROCESS
             /\ subNodes[s].size = e[2]

\* the client-visible part of a segment: type, size, addresses (not the links)
Seg(r) == <<r.type, r.size, r.p_addr, r.v_addr_start, r.v_addr_end>>

\* does the i-th segment of the traversal subs hold a request of size bytes
Fits(sn, subs, i, size) ==
    sn[subs[i]].type = HOLE /\ sn[subs[i]].size >= size

\* s with element x inserted behind position i
InsertAfter(s, i, x) == SubSeq(s, 1, i) \o <<x>> \o SubSeq(s, i + 1, Len(s))

\* C5: mems_malloc(size > 0) with a fitting hole returns the start of the
\* first fitting hole in traversal order, turns exactly that segment into a
\* PROCESS of the requested size, leaves a residual HOLE right behind it iff
\* the hole was strictly larger, and acquires no region.
C5_MallocReusesFirstFittingHole ==
    [][LET size == call'.arg
           subs == AllSubs(mainNodes, subNodes)
           subs2 == AllSubs(mainNodes', subNodes')
       IN (/\ call'.op = "malloc"
           /\ size > 0
           /\ \E i \in 1..Len(subs) : Fits(subNodes, subs, i, size))
          => LET i == CHOOSE i \in 1..Len(subs) :
                        /\ Fits(subNodes, subs, i, size)
                        /\ \A j \in 1..(i - 1) : ~Fits(subNodes, subs, j, size)
                 c == subs[i]
                 old == subNodes[c]
             IN /\ call'.ret = old.v_addr_start
                /\ call'.ret # NULL
                /\ Seg(subNodes'[c]) =
                     <<PROCESS, size, old.p_addr, old.v_addr_start,
                       old.v_addr_start + size - 1>>
                /\ \A j \in 1..Len(subs) :
                     j # i => Seg(subNodes'[subs[j]]) = Seg(subNodes[subs[j]])
                /\ IF old.size > size
                   THEN /\ Len(subs2) = Len(subs) + 1
                        /\ subs2 = InsertAfter(subs, i, subs2[i + 1])
                        /\ subs2[i + 1] \notin SeqRange(subs)
                        /\ Seg(subNodes'[subs2[i + 1]]) =
                             <<HOLE, old.size - size, old.p_addr + size,
                               old.v_addr_start + size, old.v_addr_end>>
                   ELSE subs2 = subs
                /\ provider' = provider
                /\ mainNodes' = mainNodes]_vars

\* C5 witness: a hole that is not the head of its sub-chain has been split for
\* the request, its residue following it
C5_Witness ==
    /\ call.op = "malloc"
    /\ call.arg > 0
    /\ call.seg \in Chain
    /\ subNodes[call.seg].prev # call.seg
    /\ subNodes[call.seg].type = PROCESS
    /\ subNodes[call.seg].size = call.arg
    /\ call.ret = subNodes[call.seg].v_addr_start
    /\ subNodes[call.seg].next # NULL
    /\ subNodes[subNodes[call.seg].next].type = HOLE

\* C6: mems_malloc(size > 0) with no fitting hole acquires exactly one region
\* of ceil(size / PAGE_SIZE) pages, links one new main node for it as the last
\* node before the sentinel, and gives it the sub-chain PROCESS(size) followed
\* by a HOLE of the remaining bytes, or the PROCESS alone when the request
\* fills the region; the handle is the PROCESS segment's v_addr_start.
\* (The node is linked behind head_main->prev; it is also the last node of the
\* forward traversal whenever head_main->prev is that traversal's last node.)
C6_MallocGrowsByOneRegion ==
    [][LET size == call'.arg
           subs == AllSubs(mainNodes, subNodes)
       IN (/\ call'.op = "malloc"
           /\ size > 0
           /\ \A i \in 1..Len(subs) : ~Fits(subNodes, subs, i, size))
          => LET new == Len(mainNodes) + 1
                 r == Len(provider) + 1
                 last == mainNodes[head_main].prev
                 node == mainNodes'[new]
                 bytes == node.num_of_pages * PAGE_SIZE
                 chain == SubChain(mainNodes', subNodes', new)
             IN /\ Len(provider') = r
                /\ SubSeq(provider', 1, r - 1) = provider
                /\ provider'[r].released = 0
                /\ provider'[r].pages = node.num_of_pages
                /\ provider'[r].base = node.p_addr
                /\ bytes >= size
                /\ bytes - PAGE_SIZE < size
                /\ Len(mainNodes') = new
                /\ node.next = head_main
                /\ node.prev = last
                /\ mainNodes'[head_main].prev = new
                /\ mainNodes'[last].next = new
                /\ (last = IF MainChain(mainNodes) = <<>> THEN head_main
                            ELSE MainChain(mainNodes)[Len(MainChain(mainNodes))])
                     => MainChain(mainNodes') =
                            Append(MainChain(mainNodes), new)
                /\ \A m \in 1..Len(mainNodes) :
                     /\ mainNodes'[m].sub_head = mainNodes[m].sub_head
                     /\ mainNodes'[m].v_addr_start = mainNodes[m].v_addr_start
                     /\ mainNodes'[m].v_addr_end = mainNodes[m].v_addr_end
                     /\ mainNodes'[m].p_addr = mainNodes[m].p_addr
                     /\ mainNodes'[m].num_of_pages = mainNodes[m].num_of_pages
                /\ \A s \in 1..Len(subNodes) : subNodes'[s] = subNodes[s]
                /\ node.v_addr_start = mainNodes[last].v_addr_end + 1
                /\ node.v_addr_end = node.v_addr_start + bytes - 1
                /\ Len(chain) = IF size < bytes THEN 2 ELSE 1
                /\ Len(subNodes') = Len(subNodes) + Len(chain)
                /\ Seg(subNodes'[chain[1]]) =
                     <<PROCESS, size, node.p_addr, node.v_addr_start,
                       node.v_addr_start + size - 1>>
                /\ size < bytes =>
                     Seg(subNodes'[chain[2]]) =
                       <<HOLE, bytes - size, node.p_addr + size,
                         node.v_addr_start + size, node.v_addr_end>>
                /\ call'.ret = node.v_addr_start
                /\ call'.seg = chain[1]]_vars

\* C6 witness: a request that fills its region exactly has made a region
\* whose sub-chain is the PROCESS segment alone, behind an earlier region
C6_Witness ==
    /\ call.op = "malloc"
    /\ call.arg = PAGE_SIZE
    /\ Len(mainNodes) = 3
    /\ mainNodes[head_main].prev = 3
    /\ mainNodes[3].sub_head = call.seg
    /\ subNodes[call.seg].next = NULL
    /\ subNodes[call.seg].type = PROCESS
    /\ call.ret = mainNodes[3].v_addr_start
    /\ MainChain(mainNodes) = <<2, 3>>

\* segments of the chain whose closed range [v_addr_start, v_addr_end]
\* contains every address from lo to hi
Covering(sn, chain, lo, hi) ==
    {x \in chain : sn[x].v_addr_start <= lo /\ hi <= sn[x].v_addr_end}

\* is v the start of a PROCESS segment of the chain
StartsProcess(sn, chain, v) ==
    \E x \in chain : sn[x].v_addr_start = v /\ sn[x].type = PROCESS

\* the segments of the chain that end right before address v
Before(sn, chain, v) == {x \in chain : sn[x].v_addr_end + 1 = v}

\* C7 as worded, coalescing left aside: after mems_free(h) of a live handle of
\* size s the chain has a segment that starts at h, and it is a HOLE of size
\* at least s. (Refuted also where the code coalesces as it should: a freed
\* segment behind a HOLE is absorbed into it and no segment starts at h.)
C7_FreedSegmentStartsAtHandle ==
    [][\A e \in live :
         (call'.op = "free" /\ call'.arg = e[1])
         => \E x \in SeqRange(AllSubs(mainNodes', subNodes')) :
               /\ subNodes'[x].v_addr_start = e[1]
               /\ subNodes'[x].type = HOLE
               /\ subNodes'[x].size >= e[2]]_vars

\* C7: after mems_free(h) of a live handle of size s exactly one segment of
\* the chain covers [h, h + s - 1], and it is a HOLE of size at least s: the
\* segment that starts at h or, when a HOLE preceded the freed segment, that
\* HOLE, which has absorbed it and keeps its own start.
C7_FreedRangeCoveredByOneHole ==
    [][\A e \in live :
         (call'.op = "free" /\ call'.arg = e[1])
         => LET h == e[1]
                chain2 == SeqRange(AllSubs(mainNodes', subNodes'))
                cov == Covering(subNodes', chain2, h, h + e[2] - 1)
            IN /\ Cardinality(cov) = 1
               /\ \A x \in cov :
                    /\ subNodes'[x].type = HOLE
                    /\ subNodes'[x].size >= e[2]
                    /\ subNodes'[x].size =
                         subNodes'[x].v_addr_end - subNodes'[x].v_addr_start + 1
                    /\ \/ subNodes'[x].v_addr_start = h
                       \/ /\ subNodes'[x].v_addr_start < h
                          /\ x \in Before(subNodes, Chain, h)
                          /\ subNodes[x].type = HOLE
                          /\ subNodes'[x].v_addr_start
                               = subNodes[x].v_addr_start
                          /\ SegsAt(subNodes', chain2, h) = {}]_vars

\* C8: mems_free(v) where v is not the start of a PROCESS segment leaves the
\* chain as it is: no segment changes type, size, range or links.
C8_FreeOfUnknownAddressChangesNothing ==
    [][(call'.op = "free" /\ ~StartsProcess(subNodes, Chain, call'.arg))
        => /\ subNodes' = subNodes
           /\ mainNodes' = mainNodes
           /\ provider' = provider]_vars

\* C8 witness: mems_free was called with an interior address of a live
\* allocation and found nothing to free
C8_Witness ==
    /\ call.op = "free"
    /\ call.seg = NULL
    /\ \E e \in live :
         /\ e[1] < call.arg
         /\ call.arg < e[1] + e[2]
         /\ StartsProcess(subNodes, Chain, e[1])

\* C9: mems_malloc(0) returns the null handle, acquires no region and no
\* metadata record, and leaves the main chain and every sub-chain unchanged.
C9_MallocZeroIsRejected ==
    [][(call'.op = "malloc" /\ call'.arg = 0)
        => /\ call'.ret = NULL
           /\ provider' = provider
           /\ mainNodes' = mainNodes
           /\ subNodes' = subNodes]_vars

\* C9 witness: mems_malloc(0) has returned null while the chain held a hole
C9_Witness ==
    /\ call.op = "malloc"
    /\ call.arg = 0
    /\ call.ret = NULL
    /\ \E x \in Chain : subNodes[x].type = HOLE

\* does address v lie in a HOLE segment of the chain / in no segment of it
InHole(sn, chain, v) ==
    \E x \in Covering(sn, chain, v, v) : sn[x].type = HOLE
InNoSegment(sn, chain, v) == Covering(sn, chain, v, v) = {}

\* C10: mems_get(v) returns the null pointer for every v inside a HOLE segment
\* or inside no segment of the chain, and no mems_get changes allocator state.
C10_GetOfUnmappedAddressIsNull ==
    [][call'.op = "get"
        => /\ (InHole(subNodes, Chain, call'.arg)
                \/ InNoSegment(subNodes, Chain, call'.arg))
               => call'.ret = NULL
           /\ UNCHANGED <<mainNodes, subNodes, start_virtual_address,
                          provider>>]_vars

\* C10 witness: mems_get of an address inside a HOLE of the chain, above the
\* hole's start, has returned null
C10_Witness ==
    /\ call.op = "get"
    /\ call.ret = NULL
    /\ \E x \in Chain :
         /\ subNodes[x].type = HOLE
         /\ subNodes[x].v_addr_start < call.arg
         /\ call.arg < subNodes[x].v_addr_end

\* do the closed ranges [a1, b1] and [a2, b2] intersect
Intersects(a1, b1, a2, b2) == a1 <= b2 /\ a2 <= b1

\* PROCESS segments of the chain whose range intersects [lo, hi]
ProcessesIn(sn, chain, lo, hi) ==
    {x \in chain : /\ sn[x].type = PROCESS
                   /\ Intersects(sn[x].v_addr_start, sn[x].v_addr_end, lo, hi)}

\* C11: after mems_free(h) of a live handle of size s no PROCESS segment of the
\* chain intersects [h, h + s - 1], and this stays so up to the next
\* mems_malloc: a step that is not a mems_malloc neither makes a PROCESS
\* segment nor moves the range of one.
C11_FreedRangeUnclaimedUntilMalloc ==
    [][LET chain2 == SeqRange(AllSubs(mainNodes', subNodes'))
       IN /\ \A e \in live :
               (call'.op = "free" /\ call'.arg = e[1])
               => ProcessesIn(subNodes', chain2, e[1], e[1] + e[2] - 1) = {}
          /\ call'.op # "malloc"
               => \A x \in chain2 :
                    subNodes'[x].type = PROCESS
                    => /\ x \in Chain
                       /\ Seg(subNodes[x]) = Seg(subNodes'[x])]_vars

\* C11 witness: a handle has been freed whose segment follows a PROCESS
\* segment that is still allocated
C11_Witness ==
    /\ call.op = "free"
    /\ call.seg # NULL
    /\ \E x \in Chain :
         /\ subNodes[x].type = PROCESS
         /\ subNodes[x].v_addr_end + 1 = call.arg
    /\ InHole(subNodes, Chain, call.arg)

\* C12: the main nodes reachable from the sentinel's next have pairwise
\* disjoint, strictly increasing virtual ranges; the first region made starts
\* at START_VIRTUAL_ADDRESS, every later one a byte past the v_addr_end of the
\* region made before it, and every region spans num_of_pages * PAGE_SIZE bytes.
C12_MainRangesIncreaseFromBase ==
    LET ms == MainChain(mainNodes)
    IN /\ \A i \in 1..Len(ms) :
            /\ ms[i] # head_main
            /\ mainNodes[ms[i]].num_of_pages >= 1
       /\ \A i \in 1..Len(ms) : \A j \in 1..Len(ms) :
            i < j =>
              /\ mainNodes[ms[i]].v_addr_end < mainNodes[ms[j]].v_addr_start
              /\ mainNodes[ms[i]].v_addr_start < mainNodes[ms[j]].v_addr_start
       /\ \A i \in 1..(Len(ms) - 1) :
            mainNodes[ms[i + 1]].v_addr_start = mainNodes[ms[i]].v_addr_end + 1
       /\ ms # <<>> => mainNodes[ms[1]].v_addr_start = START_VIRTUAL_ADDRESS
       /\ \A m \in 2..Len(mainNodes) :
            /\ mainNodes[m].v_addr_end - mainNodes[m].v_addr_start + 1
                 = mainNodes[m].num_of_pages * PAGE_SIZE
            /\ mainNodes[m].v_addr_start =
                 IF m = 2 THEN START_VIRTUAL_ADDRESS
                 ELSE mainNodes[m - 1].v_addr_end + 1

\* C12 witness: two regions are in the chain, the second one of two pages
C12_Witness ==
    /\ Len(MainChain(mainNodes)) = 2
    /\ mainNodes[MainChain(mainNodes)[2]].num_of_pages = 2
    /\ mainNodes[MainChain(mainNodes)[2]].v_addr_start > START_VIRTUAL_ADDRESS

\* ---- page-provider failures ----
\* the value a failing mmap returns, (void*)-1, and the -1 of a failing munmap
MAP_FAILED == -1

\* the process has called exit
Exited == call.op = "exit"

\* mems_malloc whose mmap of the backing region fails: perror, exit(0) (251-254)
MallocMmapFails ==
    \E size \in Sizes :
        /\ ~InvalidSize(size)
        /\ FirstFit(mainNodes, subNodes, size) = NULL
        /\ call' = [op |-> "exit", arg |-> size, ret |-> MAP_FAILED,
                    seg |-> NULL]
        /\ UNCHANGED <<mainNodes, subNodes, start_virtual_address,
                       provider, live>>

\* the provider after the walk of mems_finish over ms in which the munmap of
\* the main nodes in failing returns -1: perror, and the loop goes on (159-162)
RECURSIVE ReleaseSome(_, _, _, _)
ReleaseSome(mn, prov, ms, failing) ==
    IF ms = <<>> THEN prov
    ELSE ReleaseSome(mn,
                     IF Head(ms) \in failing THEN prov
                     ELSE munmap(prov, mn[Head(ms)].p_addr,
                                 mn[Head(ms)].num_of_pages),
                     Tail(ms), failing)

\* mems_finish in which at least one munmap fails
FinishMunmapFails ==
    \E failing \in SUBSET SeqRange(MainChain(mainNodes)) :
        /\ failing # {}
        /\ provider' = ReleaseSome(mainNodes, provider, MainChain(mainNodes),
                                   failing)
        /\ mainNodes' = [mainNodes EXCEPT ![head_main].next = head_main]
        /\ live' = {}
        /\ call' = [op |-> "finish", arg |-> 0, ret |-> MAP_FAILED,
                    seg |-> NULL]
        /\ UNCHANGED <<subNodes, start_virtual_address>>

\* records that fit in one arena page
RecordsPerPage == PAGE_SIZE \div NODE_SIZE

\* does the record after the n-th one start a new arena page, so that
\* add_main_node / add_sub_node call mmap for it (84, 104)
NewArenaPage(n) == n > 0 /\ n % RecordsPerPage = 0

\* the process has been killed by a signal
Killed == call.op = "signal"

\* the call record of a mems_malloc(size) killed by the store through the
\* MAP_FAILED that add_main_node / add_sub_node handed out as the record
KilledIn(size) ==
    [op |-> "signal", arg |-> size, ret |-> MAP_FAILED, seg |-> MAP_FAILED]

\* mems_malloc in which the mmap of a new arena page fails: add_main_node /
\* add_sub_node only perror and hand out MAP_FAILED as the record (87-89,
\* 107-109); the first store through it is outside every mapping and the
\* process dies with SIGSEGV, with what the call has written so far:
\*  - in the split of a larger hole (216, store of 221): nothing;
\*  - for the main node of a new region (257, store of 260): the region has
\*    been mapped (248);
\*  - for the PROCESS segment (275, store of 277): also the main node has been
\*    linked behind head_main->prev, its sub_head still NULL (260-269), and
\*    start_virtual_address advanced (271);
\*  - for the hole behind it (289, store of 291): also the PROCESS record has
\*    been written, its next still NULL (277-283).
ArenaMmapFails ==
    \E size \in Sizes :
        /\ ~InvalidSize(size)
        /\ call' = KilledIn(size)
        /\ UNCHANGED live
        /\ LET c == FirstFit(mainNodes, subNodes, size)
           IN IF c # NULL
              THEN /\ subNodes[c].size > size
                   /\ NewArenaPage(Len(subNodes))
                   /\ UNCHANGED <<mainNodes, subNodes, start_virtual_address,
                                  provider>>
              ELSE \E p_addr \in FreeBases(provider) :
                     LET num_of_pages == NumPages(size)
                         v_start ==
                             mainNodes[mainNodes[head_main].prev].v_addr_end + 1
                         linked == AppendRegion(mainNodes, p_addr,
                                                num_of_pages, NULL)
                         process ==
                             [NewSubChain(subNodes, p_addr, v_start,
                                          num_of_pages, size)
                                 [add_sub_node(subNodes)]
                              EXCEPT !.next = NULL]
                     IN /\ provider' = mmap(provider, p_addr, num_of_pages)
                        /\ \/ /\ NewArenaPage(Len(mainNodes))
                              /\ UNCHANGED <<mainNodes, subNodes,
                                             start_virtual_address>>
                           \/ /\ NewArenaPage(Len(subNodes))
                              /\ mainNodes' = linked
                              /\ start_virtual_address' =
                                     start_virtual_address + size
                              /\ UNCHANGED subNodes
                           \/ /\ size # num_of_pages * PAGE_SIZE
                              /\ NewArenaPage(Len(subNodes) + 1)
                              /\ mainNodes' = linked
                              /\ start_virtual_address' =
                                     start_virtual_address + size
                              /\ subNodes' = Append(subNodes, process)

\* the public calls with a page provider that may fail; nothing runs after
\* the process has exited or been killed
NextFail ==
    /\ ~Exited
    /\ ~Killed
    /\ \/ Malloc
       \/ Free
       \/ Get
       \/ mems_finish
       \/ mems_print_stats
       \/ MallocMmapFails
       \/ FinishMunmapFails
       \/ ArenaMmapFails

\* mems_init in which the first or the second mmap of init_free_list fails:
\* perror, exit(0) (62-70); head_main and start_virtual_address are still NULL
\* and there is no record. arg is the number of the first mmap that failed.
InitMmapFails ==
    /\ mainNodes = <<>>
    /\ subNodes = <<>>
    /\ start_virtual_address = NULL
    /\ provider = <<>>
    /\ live = {}
    /\ \E failed \in {1, 2} :
         call = [op |-> "exit", arg |-> failed, ret |-> MAP_FAILED,
                 seg |-> NULL]

\* ---- states with a full arena page ----
\* The calls as functions of the allocator's state st = [mn, sn, sva, prov],
\* the provider handing out the next address never used so far.
InitSt ==
    [mn |-> <<[ZeroMain EXCEPT !.next = head_main,
                               !.prev = head_main,
                               !.v_addr_start = START_VIRTUAL_ADDRESS,
                               !.v_addr_end = START_VIRTUAL_ADDRESS - 1]>>,
     sn |-> <<>>,
     sva |-> START_VIRTUAL_ADDRESS,
     prov |-> <<>>]

MallocSt(st, size) ==
    LET c == FirstFit(st.mn, st.sn, size)
        p_addr == SlotBase(Len(st.prov) + 1)
        num_of_pages == NumPages(size)
        v_start == st.mn[st.mn[head_main].prev].v_addr_end + 1
    IN IF InvalidSize(size) THEN st
       ELSE IF c # NULL THEN [st EXCEPT !.sn = SplitHole(st.sn, c, size)]
       ELSE [mn |-> AppendRegion(st.mn, p_addr, num_of_pages,
                                 add_sub_node(st.sn)),
             sn |-> NewSubChain(st.sn, p_addr, v_start, num_of_pages, size),
             sva |-> st.sva + size,
             prov |-> mmap(st.prov, p_addr, num_of_pages)]

FreeSt(st, v_ptr) == [st EXCEPT !.sn = FreeIn(st.mn, st.sn, v_ptr)]

FinishSt(st) ==
    [st EXCEPT !.prov = ReleaseAll(st.mn, st.prov, MainChain(st.mn)),
               !.mn = [st.mn EXCEPT ![head_main].next = head_main]]

\* st after k times mems_malloc(size). A call never takes a record back from
\* an arena; testing that has each state computed before the next call is
\* applied to it.
RECURSIVE MallocsSt(_, _, _)
MallocsSt(st, size, k) ==
    IF k = 0 THEN st
    ELSE LET after == MallocSt(st, size)
         IN IF Len(after.sn) >= Len(st.sn)
            THEN MallocsSt(after, size, k - 1)
            ELSE st

\* st after k times h = mems_malloc(size); mems_free(h)
RECURSIVE CyclesSt(_, _, _)
CyclesSt(st, size, k) ==
    IF k = 0 THEN st
    ELSE LET c == FirstFit(st.mn, st.sn, size)
             h == IF c # NULL THEN st.sn[c].v_addr_start
                  ELSE st.mn[st.mn[head_main].prev].v_addr_end + 1
             after == FreeSt(MallocSt(st, size), h)
         IN IF Len(after.sn) >= Len(st.sn)
            THEN CyclesSt(after, size, k - 1)
            ELSE st

\* both arena pages full, the chain empty: mems_malloc(1000), mems_finish,
\* then mems_malloc(4096) until the main arena holds RecordsPerPage records
\* (the sub arena does then too; each call maps a region of its own, the
\* chain being empty since the mems_finish), then mems_finish
MainArenaFullSt ==
    FinishSt(MallocsSt(FinishSt(MallocSt(InitSt, 1000)),
                       4096, RecordsPerPage - 2))

\* the sub arena page full of records that merges have dropped, the chain one
\* region that is one HOLE: RecordsPerPage - 1 times mems_malloc(1000) and
\* mems_free of the handle
SubArenaFullSt == CyclesSt(InitSt, 1000, RecordsPerPage - 1)

\* the state the last mems_free of that run is called in, and the PROCESS
\* segment it finds and frees
SubArenaLastSt == MallocSt(CyclesSt(InitSt, 1000, RecordsPerPage - 2), 1000)
SubArenaLastSeg ==
    FindProcess(SubArenaLastSt.mn, SubArenaLastSt.sn, START_VIRTUAL_ADDRESS)

\* one record short of a full sub arena page: one cycle less, so that the
\* hole of a new region is the record that starts the next page
SubArenaNearSt == CyclesSt(InitSt, 1000, RecordsPerPage - 2)
SubArenaNearLastSt == MallocSt(CyclesSt(InitSt, 1000, RecordsPerPage - 3), 1000)
SubArenaNearLastSeg ==
    FindProcess(SubArenaNearLastSt.mn, SubArenaNearLastSt.sn,
                START_VIRTUAL_ADDRESS)

ArenaFull ==
    \E full \in {<<MainArenaFullSt, "finish", 0, NULL>>,
                 <<SubArenaFullSt, "free", START_VIRTUAL_ADDRESS,
                   SubArenaLastSeg>>,
                 <<SubArenaNearSt, "free", START_VIRTUAL_ADDRESS,
                   SubArenaNearLastSeg>>} :
        /\ mainNodes = full[1].mn
        /\ subNodes = full[1].sn
        /\ start_virtual_address = full[1].sva
        /\ provider = full[1].prov
        /\ live = {}
        /\ call = [op |-> full[2], arg |-> full[3], ret |-> 0,
                   seg |-> full[4]]

\* a run starts with mems_init, which succeeds or exits; the runs from
\* ArenaFull are the runs in which an arena page has filled up, which take
\* more records than MaxSubNodes
InitFail == Init \/ InitMmapFails \/ ArenaFull

SpecFail == InitFail /\ [][NextFail]_vars

\* C13: every page-provider failure is fatal: a call in which an mmap or a
\* munmap failed (its ret is MAP_FAILED) ends with the process terminated by
\* exit, it has not been killed by a signal, and it has used no failed mapping
\* as a record (seg is not MAP_FAILED).
C13_ProviderFailureIsFatal ==
    [][(/\ call'.op \in {"malloc", "finish", "exit", "signal"}
        /\ call'.ret = MAP_FAILED)
        => /\ Exited'
           /\ ~Killed'
           /\ call'.seg # MAP_FAILED]_vars

RECURSIVE SumSizes(_, _)
SumSizes(sn, subs) ==
    IF subs = <<>> THEN 0 ELSE sn[Head(subs)].size + SumSizes(sn, Tail(subs))

\* C14: in every main node of the chain the segments tile the region: the
\* first starts at the node's v_addr_start, each next one a byte past its
\* predecessor's v_addr_end, the last ends at the node's v_addr_end, and every
\* segment has size >= 1 and v_addr_end - v_addr_start + 1 = size.
C14_SegmentsTileTheirRegion ==
    \A m \in SeqRange(MainChain(mainNodes)) :
        LET subs == SubChain(mainNodes, subNodes, m)
        IN /\ Len(subs) >= 1
           /\ subNodes[subs[1]].v_addr_start = mainNodes[m].v_addr_start
           /\ subNodes[subs[Len(subs)]].v_addr_end = mainNodes[m].v_addr_end
           /\ \A i \in 1..(Len(subs) - 1) :
                subNodes[subs[i + 1]].v_addr_start
                    = subNodes[subs[i]].v_addr_end + 1
           /\ \A i \in 1..Len(subs) :
                /\ subNodes[subs[i]].size >= 1
                /\ subNodes[subs[i]].v_addr_end
                     - subNodes[subs[i]].v_addr_start + 1
                       = subNodes[subs[i]].size
           /\ SumSizes(subNodes, subs) = mainNodes[m].num_of_pages * PAGE_SIZE

\* C14 witness: a region of the chain is tiled by three segments, the middle
\* one made by splitting a hole
C14_Witness ==
    \E m \in SeqRange(MainChain(mainNodes)) :
        /\ Len(SubChain(mainNodes, subNodes, m)) = 3
        /\ subNodes[SubChain(mainNodes, subNodes, m)[2]].type = PROCESS

\* C15: no sub-chain of the chain has two adjacent segments that are both HOLE.
C15_NoAdjacentHoles ==
    \A m \in SeqRange(MainChain(mainNodes)) :
        LET subs == SubChain(mainNodes, subNodes, m)
        IN \A i \in 1..(Len(subs) - 1) :
             ~(subNodes[subs[i]].type = HOLE /\ subNodes[subs[i + 1]].type = HOLE)

\* C15 witness: mems_free has freed a segment that lay between two holes, and
\* its region is one hole now
C15_Witness ==
    /\ call.op = "free"
    /\ call.seg # NULL
    /\ call.seg \notin Chain
    /\ \E m \in SeqRange(MainChain(mainNodes)) :
         LET subs == SubChain(mainNodes, subNodes, m)
         IN /\ Len(subs) = 1
            /\ subNodes[subs[1]].type = HOLE
            /\ subNodes[subs[1]].v_addr_start < call.arg
            /\ subNodes[subs[1]].v_addr_end > subNodes[call.seg].v_addr_end

\* C16: every segment's p_addr lies inside the physical region of its main
\* node, at the offset its v_addr_start has from the node's v_addr_start.
C16_PhysicalOffsetEqualsVirtualOffset ==
    \A m \in SeqRange(MainChain(mainNodes)) :
        \A s \in SeqRange(SubChain(mainNodes, subNodes, m)) :
            /\ subNodes[s].p_addr >= mainNodes[m].p_addr
            /\ subNodes[s].p_addr
                 < mainNodes[m].p_addr + mainNodes[m].num_of_pages * PAGE_SIZE
            /\ subNodes[s].p_addr - mainNodes[m].p_addr
                 = subNodes[s].v_addr_start - mainNodes[m].v_addr_start

\* C16 witness: a freed segment behind a PROCESS segment, above the base of its
\* region, has absorbed the hole that followed it
C16_Witness ==
    /\ call.op = "free"
    /\ call.seg \in Chain
    /\ subNodes[call.seg].type = HOLE
    /\ subNodes[call.seg].prev # call.seg
    /\ subNodes[subNodes[call.seg].prev].type = PROCESS
    /\ \E d \in 1..Len(subNodes) :
         /\ d \notin Chain
         /\ subNodes[d].prev = call.seg
         /\ subNodes[d].type = HOLE
         /\ subNodes[d].v_addr_end = subNodes[call.seg].v_addr_end

\* C17: after mems_finish the main chain is empty and self-linked: the
\* sentinel's next and prev both point to the sentinel.
C17_FinishSelfLinksSentinel ==
    call.op = "finish" =>
        /\ mainNodes[head_main].next = head_main
        /\ mainNodes[head_main].prev = head_main

\* does the range of main node m contain address v
MainContains(mn, m, v) == mn[m].v_addr_start <= v /\ v <= mn[m].v_addr_end

\* C18: mems_free(h) changes only the sub-chain of the main node that contains
\* h: the sub-chain of every other main node keeps its segments, types, sizes,
\* ranges and links, and no segment reaches beyond the range of its main node.
C18_CoalescingStaysInsideRegion ==
    [][call'.op = "free"
        => /\ MainChain(mainNodes') = MainChain(mainNodes)
           /\ \A m \in SeqRange(MainChain(mainNodes)) :
                /\ ~MainContains(mainNodes, m, call'.arg)
                     => /\ SubChain(mainNodes', subNodes', m)
                             = SubChain(mainNodes, subNodes, m)
                        /\ \A s \in SeqRange(SubChain(mainNodes, subNodes, m)) :
                             subNodes'[s] = subNodes[s]
                /\ \A s \in SeqRange(SubChain(mainNodes', subNodes', m)) :
                     /\ MainContains(mainNodes', m, subNodes'[s].v_addr_start)
                     /\ MainContains(mainNodes', m, subNodes'[s].v_addr_end)]_vars

\* C18 witness: after a mems_free a hole ends one region and a hole starts the
\* next region, and both are still segments of their own
C18_Witness ==
    /\ call.op = "free"
    /\ call.seg # NULL
    /\ Len(MainChain(mainNodes)) = 2
    /\ LET m1 == MainChain(mainNodes)[1]
           m2 == MainChain(mainNodes)[2]
           subs1 == SubChain(mainNodes, subNodes, m1)
       IN /\ subNodes[subs1[Len(subs1)]].type = HOLE
          /\ subNodes[subs1[Len(subs1)]].v_addr_end = mainNodes[m1].v_addr_end
          /\ subNodes[mainNodes[m2].sub_head].type = HOLE
          /\ subNodes[mainNodes[m2].sub_head].v_addr_start
               = mainNodes[m1].v_addr_end + 1

\* C19: coalescing is idempotent: in a state mems_free has left, running
\* merge_holes again changes no record of any sub-chain.
C19_MergeHolesIsIdempotent ==
    call.op = "free" => merge_holes(mainNodes, subNodes) = subNodes

\* C19 witness: mems_free has freed the head of a sub-chain, which has
\* absorbed every segment behind it
C19_Witness ==
    /\ call.op = "free"
    /\ call.seg \in Chain
    /\ subNodes[call.seg].prev = call.seg
    /\ subNodes[call.seg].next = NULL
    /\ subNodes[call.seg].type = HOLE
    /\ \E d \in 1..Len(subNodes) :
         d # call.seg /\ subNodes[d].prev = call.seg /\ d \notin Chain

\* C20: a segment that stays in the chain changes its type only from HOLE to
\* PROCESS as the segment a mems_malloc returns, or from PROCESS to HOLE in a
\* mems_free of its own v_addr_start; no other call and no merge flips it.
C20_TypeFlipsOnlyByMallocAndFree ==
    [][\A s \in Chain \cap SeqRange(AllSubs(mainNodes', subNodes')) :
         subNodes'[s].type # subNodes[s].type
         => \/ /\ subNodes[s].type = HOLE
               /\ subNodes'[s].type = PROCESS
               /\ call'.op = "malloc"
               /\ call'.ret = subNodes[s].v_addr_start
            \/ /\ subNodes[s].type = PROCESS
               /\ subNodes'[s].type = HOLE
               /\ call'.op = "free"
               /\ call'.arg = subNodes[s].v_addr_start]_vars

\* C20 witness: mems_malloc has taken a hole made by merging as a whole (an
\* exact match), flipping it to PROCESS
C20_Witness ==
    /\ call.op = "malloc"
    /\ call.seg \in Chain
    /\ subNodes[call.seg].type = PROCESS
    /\ subNodes[call.seg].next = NULL
    /\ subNodes[call.seg].prev = call.seg
    /\ subNodes[call.seg].size = call.arg
    /\ \E d \in 1..Len(subNodes) :
         d # call.seg /\ subNodes[d].prev = call.seg /\ d \notin Chain

\* the records of the sub arena that are PROCESS segments starting at v
ProcessAt(sn, v) ==
    {x \in 1..Len(sn) : sn[x].type = PROCESS /\ sn[x].v_addr_start = v}

\* do the allocations e1 and e2 (<<handle, size>>) share a virtual byte
VirtualOverlap(e1, e2) ==
    Intersects(e1[1], e1[1] + e1[2] - 1, e2[1], e2[1] + e2[2] - 1)

\* do the segments x1 and x2 share a physical byte
PhysicalOverlap(sn, x1, x2) ==
    Intersects(sn[x1].p_addr, sn[x1].p_addr + sn[x1].size - 1,
               sn[x2].p_addr, sn[x2].p_addr + sn[x2].size - 1)

\* C21: the live allocations are pairwise disjoint. After every call, each
\* live handle h of size s has one PROCESS segment of size s starting at h;
\* two distinct live allocations share no virtual byte and their segments
\* share no physical byte; and the handle a mems_malloc returns overlaps no
\* allocation that was live when it was called.
C21_LiveAllocationsAreDisjoint ==
    [][/\ \A e \in live' :
            /\ Cardinality(ProcessAt(subNodes', e[1])) = 1
            /\ \A x \in ProcessAt(subNodes', e[1]) : subNodes'[x].size = e[2]
       /\ \A e1, e2 \in live' :
            e1 # e2
            => /\ ~VirtualOverlap(e1, e2)
               /\ \A x1 \in ProcessAt(subNodes', e1[1]),
                     x2 \in ProcessAt(subNodes', e2[1]) :
                    ~PhysicalOverlap(subNodes', x1, x2)
       /\ (call'.op = "malloc" /\ call'.ret # NULL)
            => \A e \in live :
                 /\ ~VirtualOverlap(<<call'.ret, call'.arg>>, e)
                 /\ \A x \in ProcessAt(subNodes, e[1]) :
                      ~PhysicalOverlap(subNodes', call'.seg, x)]_vars

\* C21 witness: mems_malloc has returned the range right below an allocation
\* that was live already, reusing the hole a mems_free had left there
C21_Witness ==
    /\ call.op = "malloc"
    /\ call.seg \in Chain
    /\ <<call.ret, call.arg>> \in live
    /\ \E e \in live :
         /\ e[1] = call.ret + call.arg
         /\ ProcessAt(subNodes, e[1]) = {subNodes[call.seg].next}
         /\ subNodes[subNodes[call.seg].next].p_addr
              = subNodes[call.seg].p_addr + call.arg
====
